---- MODULE Spec2Model ----
(***************************************************************************)
(* A model of lib/internal/watch_mode/files_watcher.js: the FilesWatcher   *)
(* class (watch registry, owner/file dependency maps, change throttling    *)
(* and the IPC relay to a watched child process).                          *)
(*                                                                         *)
(* Strings (paths, owner ids, file names, URLs) are sequences of           *)
(* characters, so that StringPrototypeStartsWith, dirname, resolve and     *)
(* fileURLToPath are computed character by character, as the code does.    *)
(***************************************************************************)
EXTENDS Integers, Sequences, FiniteSets, TLC

(***************************************************************************)
(* Bounds of the model.                                                    *)
(***************************************************************************)
\* how many OS watches (calls of fs.watch) one behaviour may start
MaxHandles == 2
\* how many times watchChildProcessModules may be called for one child
MaxPairings == 2

(***************************************************************************)
(* The file system the watcher runs on, and the strings the callers use.   *)
(***************************************************************************)
\* two sibling directories, the name of one a prefix of the other's, and a
\* file in each
DirA == <<"/", "a">>
DirAB == <<"/", "a", "b">>
FileF == <<"/", "a", "/", "f">>
FileG == <<"/", "a", "b", "/", "g">>
\* a path that does not exist: fs.watch throws on it
FileMissing == <<"/", "n", "/", "q">>
Dirs == {DirA, DirAB}
Files == {FileF, FileG}
Exists == Dirs \cup Files
\* the empty string, null and undefined: every falsy file or owner
Falsy == << >>
OwnerX == <<"o", "1">>
\* owner ids are strings; the test runner uses file paths as owner ids
Owners == {OwnerX, FileF}

VARIABLES
  mode,                      \* this.#mode
  supportsRecursiveWatching, \* the platform flag of line 22
  processSend,               \* whether process.send exists
  wantsPassthroughIPC,       \* this.#wantsPassthroughIPC
  watchers,                  \* this.#watchers: path -> [handle, recursive]
  handles,                   \* every FSWatcher fs.watch returned, by creation:
                             \* its 'change' listeners and whether it is closed
  filteredFiles,             \* this.#filteredFiles
  throttling,                \* this.#throttling
  timers,                    \* pending setTimeout callbacks, per trigger
  depencencyOwners,          \* this.#depencencyOwners: file -> set of owners
  ownerDependencies,         \* this.#ownerDependencies: key -> SafeSet object
  depSets,                   \* the SafeSet objects ownerDependencies refers to
  ipcMessages,               \* child._ipcMessages, per child
  processListeners,          \* listeners of process 'message'
  childListeners,            \* listeners of child 'message', per child
  op,                        \* the operation the last step performed
  emitted,                   \* the 'changed' events the last step emitted
  sent,                      \* the messages the last step sent, by direction
  sinceExpiry,               \* history: events per trigger since its timer fired
  registered,                \* history: per file, the owners filterFile gave it
                             \* since its associations were last removed
  preClear,                  \* history: how many handles existed at the last clear()
  tornDown,                  \* history: children whose last IPC call was destroyIPC
  skipped                    \* history: children one of whose messages failed

watchVars == <<watchers, handles>>
graphVars == <<filteredFiles, depencencyOwners, ownerDependencies, depSets>>
throttleVars == <<throttling, timers>>
ipcVars == <<ipcMessages, processListeners, childListeners>>
configVars == <<mode, supportsRecursiveWatching, processSend, wantsPassthroughIPC>>
histVars == <<sinceExpiry, registered, preClear, tornDown, skipped>>
vars == <<configVars, watchVars, graphVars, throttleVars, ipcVars, op, emitted,
          sent, histVars>>


(***************************************************************************)
(* Library functions the code calls.                                       *)
(***************************************************************************)
\* StringPrototypeStartsWith(s, prefix)
StartsWith(s, prefix) ==
  /\ Len(prefix) <= Len(s)
  /\ SubSeq(s, 1, Len(prefix)) = prefix

\* the index of the last "/" of a string, 0 when it has none
LastSlash(p) ==
  IF \E i \in 1..Len(p) : p[i] = "/"
    THEN CHOOSE i \in 1..Len(p) :
           p[i] = "/" /\ \A j \in (i + 1)..Len(p) : p[j] # "/"
    ELSE 0

\* path.dirname(file), on a normalised posix path
dirname(file) ==
  IF LastSlash(file) = 0 THEN <<".">>
  ELSE IF LastSlash(file) = 1 THEN <<"/">>
  ELSE SubSeq(file, 1, LastSlash(file) - 1)

\* path.resolve(path, fileName), path absolute and fileName relative
resolve(path, fileName) ==
  IF path = <<"/">> THEN path \o fileName ELSE path \o <<"/">> \o fileName

\* the prefix of a file: URL with an empty host
FileScheme == <<"f", "i", "l", "e", ":", "/", "/">>

\* url.fileURLToPath(url) throws unless the URL has the file: scheme
fileURLThrows(url) == ~ StartsWith(url, FileScheme)

\* url.fileURLToPath(url): the path that follows file://
fileURLToPath(url) == SubSeq(url, Len(FileScheme) + 1, Len(url))

\* fs.watch(path) throws on a path that does not exist
watchThrows(path) == path \notin Exists

\* Map.prototype.get: undefined when the key is absent
MapGet(map, key) ==
  IF key \in DOMAIN map THEN [has |-> TRUE, val |-> map[key]]
  ELSE [has |-> FALSE]

\* Map.prototype.delete of a set of keys
MapDelete(map, keys) == [k \in DOMAIN map \ keys |-> map[k]]

(***************************************************************************)
(* The private fields of a FilesWatcher as one record, so that the methods *)
(* compose the way the code calls them. threw: an exception is in flight;  *)
(* registered: the history variable, which filterFile extends.             *)
(***************************************************************************)
Fields ==
  [watchers |-> watchers, handles |-> handles, filteredFiles |-> filteredFiles,
   depencencyOwners |-> depencencyOwners,
   ownerDependencies |-> ownerDependencies, depSets |-> depSets,
   threw |-> FALSE, registered |-> registered]

\* the SafeSet objects no entry of #ownerDependencies refers to are garbage
Collect(s) ==
  [s EXCEPT !.depSets =
     [r \in {s.ownerDependencies[k] : k \in DOMAIN s.ownerDependencies}
        |-> s.depSets[r]]]

\* new SafeSet(): an object no map refers to yet
NewRef(s) == CHOOSE r \in 1..(Cardinality(DOMAIN s.depSets) + 1) :
               r \notin DOMAIN s.depSets

(***************************************************************************)
(* WatchRegistry                                                           *)
(***************************************************************************)
\* #isPathWatched(path) with the loop over the recursive watches left out
isPathWatchedExact(w, path) == path \in DOMAIN w

\* #isPathWatched(path)
isPathWatched(w, path) ==
  \/ path \in DOMAIN w
  \/ \E watchedPath \in DOMAIN w :
       w[watchedPath].recursive /\ StartsWith(path, watchedPath)

\* #unwatch(watcher), on each handle of ids
unwatch(hs, ids) ==
  [i \in DOMAIN hs |->
     IF i \in ids THEN [hs[i] EXCEPT !.listeners = {}, !.closed = TRUE]
     ELSE hs[i]]

\* line 62 with the arguments of StringPrototypeStartsWith exchanged
WatchedParents(w, path) ==
  {watchedPath \in DOMAIN w :
     path # watchedPath /\ StartsWith(path, watchedPath)}

\* the entries #removeWatchedChildren(path) removes
WatchedChildren(w, path) ==
  {watchedPath \in DOMAIN w :
     path # watchedPath /\ StartsWith(watchedPath, path)}

\* #removeWatchedChildren(path) without line 63: the entries are deleted, their
\* handles left as they are
removeWatchedChildrenUnclosed(s, path) ==
  [s EXCEPT !.watchers = MapDelete(@, WatchedChildren(s.watchers, path))]

\* #removeWatchedChildren(path)
removeWatchedChildren(s, path) ==
  LET gone == WatchedChildren(s.watchers, path)
  IN [s EXCEPT !.handles = unwatch(@, {s.watchers[p].handle : p \in gone}),
               !.watchers = MapDelete(@, gone)]

\* watchPath(path, recursive) without lines 99-101: nothing is pruned
watchPathUnpruned(s, path, recursive) ==
  IF s.threw \/ isPathWatched(s.watchers, path) THEN s
  ELSE IF watchThrows(path) THEN [s EXCEPT !.threw = TRUE]
  ELSE
    LET watcher == [listeners |-> {[path |-> path, recursive |-> recursive]},
                    closed |-> FALSE]
    IN [s EXCEPT
          !.handles = Append(@, watcher),
          !.watchers = (path :> [handle |-> Len(s.handles) + 1,
                                 recursive |-> recursive]) @@ @]

\* watchPath(path, recursive)
watchPath(s, path, recursive) ==
  IF s.threw \/ isPathWatched(s.watchers, path) THEN s
  ELSE IF watchThrows(path) THEN [s EXCEPT !.threw = TRUE]
  ELSE
    LET watcher == [listeners |-> {[path |-> path, recursive |-> recursive]},
                    closed |-> FALSE]
        added == [s EXCEPT
                    !.handles = Append(@, watcher),
                    !.watchers = (path :> [handle |-> Len(s.handles) + 1,
                                           recursive |-> recursive]) @@ @]
    IN IF recursive THEN removeWatchedChildren(added, path) ELSE added

(***************************************************************************)
(* DependencyGraph                                                         *)
(***************************************************************************)
\* lines 114-121 with line 115 always taking a new SafeSet
associateFresh(s, file, owner) ==
  LET had == file \in DOMAIN s.ownerDependencies
      ref == IF had THEN s.ownerDependencies[file] ELSE NewRef(s)
      dependencies == IF had THEN s.depSets[ref] ELSE {}
  IN Collect([s EXCEPT
       !.depencencyOwners = (file :> {owner}) @@ @,
       !.depSets = (ref :> (dependencies \cup {file})) @@ @,
       !.ownerDependencies = (owner :> ref) @@ @])

\* lines 114-121 of filterFile: the owner <-> file association
associate(s, file, owner) ==
  LET got == MapGet(s.depencencyOwners, file)
      owners == IF got.has THEN got.val ELSE {}
      had == file \in DOMAIN s.ownerDependencies
      ref == IF had THEN s.ownerDependencies[file] ELSE NewRef(s)
      dependencies == IF had THEN s.depSets[ref] ELSE {}
  IN Collect([s EXCEPT
       !.depencencyOwners = (file :> (owners \cup {owner})) @@ @,
       !.depSets = (ref :> (dependencies \cup {file})) @@ @,
       !.ownerDependencies = (owner :> ref) @@ @])

\* filterFile(file, owner)
filterFile(s, file, owner) ==
  IF s.threw \/ file = Falsy THEN s
  ELSE
    LET watched == IF supportsRecursiveWatching
                     THEN watchPath(s, dirname(file), TRUE)
                     ELSE watchPath(s, file, FALSE)
        filtered == [watched EXCEPT !.filteredFiles = @ \cup {file}]
    IN IF watched.threw THEN watched
       ELSE IF owner = Falsy THEN filtered
       ELSE [associate(filtered, file, owner) EXCEPT
               !.registered[file] = @ \cup {owner}]

\* the body of the forEach of unfilterFilesOwnedBy, for one owner
unfilterOwner(s, owner) ==
  LET deps == IF owner \in DOMAIN s.ownerDependencies
                THEN s.depSets[s.ownerDependencies[owner]] ELSE {}
  IN Collect([s EXCEPT
       !.filteredFiles = @ \ (deps \cup {owner}),
       !.depencencyOwners = MapDelete(@, deps \cup {owner}),
       !.ownerDependencies = MapDelete(@, {owner})])

\* unfilterFilesOwnedBy(owners), owners an array
RECURSIVE unfilterFilesOwnedBy(_, _)
unfilterFilesOwnedBy(s, owners) ==
  IF owners = << >> THEN s
  ELSE unfilterFilesOwnedBy(unfilterOwner(s, Head(owners)), Tail(owners))

\* clearFileFilters() clearing the owners of the files as well
clearFileFiltersAndOwners(s) ==
  [s EXCEPT !.filteredFiles = {}, !.depencencyOwners = << >>]

\* clearFileFilters()
clearFileFilters(s) == [s EXCEPT !.filteredFiles = {}]

\* clear() without line 187: the watches are forgotten, not stopped
clearWithoutUnwatch(s) ==
  [s EXCEPT
     !.watchers = << >>,
     !.filteredFiles = {},
     !.depencencyOwners = << >>,
     !.ownerDependencies = << >>,
     !.depSets = << >>]

\* clear()
clear(s) ==
  [s EXCEPT
     !.handles = unwatch(@, {s.watchers[p].handle : p \in DOMAIN s.watchers}),
     !.watchers = << >>,
     !.filteredFiles = {},
     !.depencencyOwners = << >>,
     !.ownerDependencies = << >>,
     !.depSets = << >>]

(***************************************************************************)
(* ChangeDebouncer                                                         *)
(***************************************************************************)
\* #onChange(trigger) without the test of lines 75-77
onChangeUnthrottled(trigger) ==
  IF mode = "filter" /\ trigger \notin filteredFiles
    THEN [throttling |-> throttling, timers |-> timers, emitted |-> << >>]
  ELSE [throttling |-> throttling \cup {trigger},
        timers |-> [timers EXCEPT ![trigger] = @ + 1],
        emitted |-> <<[trigger |-> trigger,
                       owners |-> MapGet(depencencyOwners, trigger)]>>]

\* #onChange(trigger) without the test of lines 78-80
onChangeUnfiltered(trigger) ==
  IF trigger \in throttling
    THEN [throttling |-> throttling, timers |-> timers, emitted |-> << >>]
  ELSE [throttling |-> throttling \cup {trigger},
        timers |-> [timers EXCEPT ![trigger] = @ + 1],
        emitted |-> <<[trigger |-> trigger,
                       owners |-> MapGet(depencencyOwners, trigger)]>>]

\* #onChange(trigger): the new #throttling, timers and the events emitted
onChange(trigger) ==
  IF trigger \in throttling
    THEN [throttling |-> throttling, timers |-> timers, emitted |-> << >>]
  ELSE IF mode = "filter" /\ trigger \notin filteredFiles
    THEN [throttling |-> throttling, timers |-> timers, emitted |-> << >>]
  ELSE [throttling |-> throttling \cup {trigger},
        timers |-> [timers EXCEPT ![trigger] = @ + 1],
        emitted |-> <<[trigger |-> trigger,
                       owners |-> MapGet(depencencyOwners, trigger)]>>]

\* the argument the 'change' listener of line 96 gives #onChange
ChangeTrigger(listener, fileName) ==
  IF listener.recursive THEN resolve(listener.path, fileName)
  ELSE listener.path


(***************************************************************************)
(* IPCRelay                                                                *)
(***************************************************************************)
Children == {"child"}
\* the key argument of watchChildProcessModules; Falsy is the default null
Keys == {Falsy, OwnerX}

\* a closure pair that is neither registered nor held by child._ipcMessages
NewPair(child) ==
  CHOOSE k \in 1..(MaxPairings + 2) :
    /\ k \notin childListeners[child].relay
    /\ [child |-> child, pair |-> k] \notin processListeners
    /\ k # ipcMessages[child]

FileURL(path) == FileScheme \o path
\* a URL fileURLToPath rejects
BadURL == <<"h", "t", "t", "p", ":", "/", "/", "x">>

NotArray == [isArray |-> FALSE]
Array(items) == [isArray |-> TRUE, items |-> items]
\* null: reading a property of it throws
NullMessage == [isNull |-> TRUE]
Message(require, import) ==
  [isNull |-> FALSE, require |-> require, import |-> import]

\* the messages a child sends
Messages ==
  {NullMessage} \cup
  {Message(r, i) :
     r \in {NotArray, Array(<< >>), Array(<<FileF>>), Array(<<FileF, FileG>>),
            Array(<<FileG, FileMissing>>)},
     i \in {NotArray, Array(<< >>), Array(<<FileURL(FileG)>>),
            Array(<<FileURL(FileF), BadURL>>)}}

\* the forEach registering nothing of a list one entry of which fails
RECURSIVE forEachFilterFileAtomic(_, _, _, _)
forEachFilterFileAtomic(s, list, isURL, key) ==
  IF s.threw \/ list = << >> THEN s
  ELSE IF \E i \in DOMAIN list :
            \/ isURL /\ fileURLThrows(list[i])
            \/ watchThrows(IF isURL THEN fileURLToPath(list[i]) ELSE list[i])
    THEN [s EXCEPT !.threw = TRUE]
  ELSE forEachFilterFileAtomic(
         filterFile(s, IF isURL THEN fileURLToPath(Head(list)) ELSE Head(list),
                    key),
         Tail(list), isURL, key)

\* ArrayPrototypeForEach(list, (file) => this.filterFile(file, key)), with
\* convert applied to each entry first when it is a list of URLs
RECURSIVE forEachFilterFile(_, _, _, _)
forEachFilterFile(s, list, isURL, key) ==
  IF s.threw \/ list = << >> THEN s
  ELSE IF isURL /\ fileURLThrows(Head(list)) THEN [s EXCEPT !.threw = TRUE]
  ELSE forEachFilterFile(
         filterFile(s, IF isURL THEN fileURLToPath(Head(list)) ELSE Head(list),
                    key),
         Tail(list), isURL, key)

\* the try block with line 157 left out: the list under 'watch:import' is
\* not registered
handleMessageRequireOnly(s, message, key) ==
  IF message.isNull THEN [fields |-> [s EXCEPT !.threw = TRUE], restarted |-> 0]
  ELSE
    LET required == IF message.require.isArray
                      THEN forEachFilterFile(s, message.require.items, FALSE, key)
                      ELSE s
        imported == required
        sendInitial == message.require.isArray \/ message.import.isArray
    IN [fields |-> imported,
        restarted |-> IF ~ imported.threw /\ sendInitial /\ processSend
                        THEN 1 ELSE 0]

\* the try block of the 'message' listener of watchChildProcessModules:
\* the fields it leaves, whether it threw, and how many times it sent
\* 'watch:restarted' upstream
handleMessage(s, message, key) ==
  IF message.isNull THEN [fields |-> [s EXCEPT !.threw = TRUE], restarted |-> 0]
  ELSE
    LET required == IF message.require.isArray
                      THEN forEachFilterFile(s, message.require.items, FALSE, key)
                      ELSE s
        imported == IF message.import.isArray
                      THEN forEachFilterFile(required, message.import.items,
                                             TRUE, key)
                      ELSE required
        sendInitial == message.require.isArray \/ message.import.isArray
    IN [fields |-> imported,
        restarted |-> IF ~ imported.threw /\ sendInitial /\ processSend
                        THEN 1 ELSE 0]

\* the 'message' listeners with the try and catch of lines 150 and 167 left
\* out: the exception of a listener leaves emit, the later listeners do not run
RECURSIVE runHandlersUncaught(_, _, _)
runHandlersUncaught(s, message, keys) ==
  IF keys = << >> THEN [fields |-> s, restarted |-> 0, failed |-> FALSE]
  ELSE
    LET first == handleMessage(s, message, Head(keys))
        rest == runHandlersUncaught(first.fields, message, Tail(keys))
    IN IF first.fields.threw
         THEN [fields |-> first.fields, restarted |-> 0, failed |-> TRUE]
         ELSE [fields |-> rest.fields,
               restarted |-> first.restarted + rest.restarted,
               failed |-> rest.failed]

\* every 'message' listener watchChildProcessModules added to the child, in
\* the order they were added; the catch of line 167 clears the exception.
\* failed: whether a try block was left by an exception
RECURSIVE runHandlers(_, _, _)
runHandlers(s, message, keys) ==
  IF keys = << >> THEN [fields |-> s, restarted |-> 0, failed |-> FALSE]
  ELSE
    LET first == handleMessage(s, message, Head(keys))
        rest == runHandlers([first.fields EXCEPT !.threw = FALSE], message,
                            Tail(keys))
    IN [fields |-> rest.fields, restarted |-> first.restarted + rest.restarted,
        failed |-> first.fields.threw \/ rest.failed]


(***************************************************************************)
(* The state after construction, and the steps.                            *)
(***************************************************************************)
NoEvents == << >>
NothingSent ==
  [toChild |-> [c \in Children |-> 0], forwarded |-> 0, restarted |-> 0]

Init ==
  /\ mode \in {"filter", "all"}
  /\ supportsRecursiveWatching \in BOOLEAN
  /\ processSend \in BOOLEAN
  /\ wantsPassthroughIPC = processSend
  /\ watchers = << >>
  /\ handles = << >>
  /\ filteredFiles = {}
  /\ throttling = {}
  /\ timers = [t \in Exists |-> 0]
  /\ depencencyOwners = << >>
  /\ ownerDependencies = << >>
  /\ depSets = << >>
  /\ ipcMessages = [c \in Children |-> 0]
  /\ processListeners = {}
  /\ childListeners = [c \in Children |-> [relay |-> {}, modules |-> << >>]]
  /\ op = [name |-> "constructor"]
  /\ emitted = NoEvents
  /\ sent = NothingSent
  /\ sinceExpiry = [t \in Exists |-> 0]
  /\ registered = [f \in Files |-> {}]
  /\ preClear = 0
  /\ tornDown = {}
  /\ skipped = {}

\* a watcher constructed in a process that has no upstream channel
InitAlone == Init /\ ~ processSend

\* the fields a method leaves become the watcher's fields; a step binds the
\* result of its method once, as the s of \E s \in {method(Fields, ...)}
Install(s) ==
  /\ Len(s.handles) <= MaxHandles
  /\ watchers' = s.watchers
  /\ handles' = s.handles
  /\ filteredFiles' = s.filteredFiles
  /\ depencencyOwners' = s.depencencyOwners
  /\ ownerDependencies' = s.ownerDependencies
  /\ depSets' = s.depSets

\* the files whose entry of #depencencyOwners a call deleted lose their history
Forget(s) ==
  [f \in Files |->
     IF f \in DOMAIN depencencyOwners /\ f \notin DOMAIN s.depencencyOwners
       THEN {} ELSE s.registered[f]]

Quiet == emitted' = NoEvents /\ sent' = NothingSent

WatchPath(path, recursive) ==
  \E s \in {watchPath(Fields, path, recursive)} :
     /\ Install(s)
     /\ registered' = s.registered
     /\ op' = [name |-> "watchPath", path |-> path, recursive |-> recursive,
               started |-> Len(s.handles) > Len(handles),
               removed |-> DOMAIN watchers \ DOMAIN s.watchers]
     /\ Quiet
     /\ UNCHANGED <<configVars, throttleVars, ipcVars, sinceExpiry, preClear,
                    tornDown, skipped>>

FilterFile(file, owner) ==
  \E s \in {filterFile(Fields, file, owner)} :
     /\ Install(s)
     /\ registered' = s.registered
     /\ op' = [name |-> "filterFile", file |-> file, threw |-> s.threw]
     /\ Quiet
     /\ UNCHANGED <<configVars, throttleVars, ipcVars, sinceExpiry, preClear,
                    tornDown, skipped>>

UnfilterFilesOwnedBy(owners) ==
  \E s \in {unfilterFilesOwnedBy(Fields, owners)} :
     /\ Install(s)
     /\ registered' = Forget(s)
     /\ op' = [name |-> "unfilterFilesOwnedBy", owners |-> owners]
     /\ Quiet
     /\ UNCHANGED <<configVars, throttleVars, ipcVars, sinceExpiry, preClear,
                    tornDown, skipped>>

ClearFileFilters ==
  \E s \in {clearFileFilters(Fields)} :
     /\ Install(s)
     /\ registered' = s.registered
     /\ op' = [name |-> "clearFileFilters"]
     /\ Quiet
     /\ UNCHANGED <<configVars, throttleVars, ipcVars, sinceExpiry, preClear,
                    tornDown, skipped>>

\* clear() emptying #throttling with the other fields
ClearThrottled ==
  \E s \in {clear(Fields)} :
     /\ Install(s)
     /\ registered' = Forget(s)
     /\ preClear' = Len(handles)
     /\ throttling' = {}
     /\ timers' = timers
     /\ op' = [name |-> "clear"]
     /\ Quiet
     /\ UNCHANGED <<configVars, ipcVars, sinceExpiry, tornDown, skipped>>

Clear ==
  \E s \in {clear(Fields)} :
     /\ Install(s)
     /\ registered' = Forget(s)
     /\ preClear' = Len(handles)
     /\ op' = [name |-> "clear"]
     /\ Quiet
     /\ UNCHANGED <<configVars, throttleVars, ipcVars, sinceExpiry, tornDown,
                    skipped>>

\* the file names the OS reports
FileNames == {<<"f">>, <<"g">>}

\* the OS reports a change of fileName on a handle fs.watch returned: its
\* 'change' listener, when it still has one, calls #onChange. The OS reports
\* on a recursive watch only what exists under the watched path.
Change(h, fileName) ==
  LET heard == handles[h].listeners # {}
      listener == CHOOSE l \in handles[h].listeners : TRUE
  IN \E r \in {IF heard THEN onChange(ChangeTrigger(listener, fileName))
               ELSE [throttling |-> throttling, timers |-> timers,
                     emitted |-> NoEvents]} :
     /\ heard => ChangeTrigger(listener, fileName) \in Exists
     /\ throttling' = r.throttling
     /\ timers' = r.timers
     /\ emitted' = r.emitted
     /\ sinceExpiry' =
          [t \in Exists |->
             sinceExpiry[t] +
               Cardinality({i \in DOMAIN r.emitted : r.emitted[i].trigger = t})]
     /\ op' = [name |-> "change", handle |-> h, heard |-> heard,
               trigger |-> IF heard THEN ChangeTrigger(listener, fileName)
                           ELSE Falsy]
     /\ sent' = NothingSent
     /\ UNCHANGED <<configVars, watchVars, graphVars, ipcVars, registered,
                    preClear, tornDown, skipped>>

\* the callback of the setTimeout of line 84 runs
Timeout(trigger) ==
  /\ timers[trigger] > 0
  /\ timers' = [timers EXCEPT ![trigger] = @ - 1]
  /\ throttling' = throttling \ {trigger}
  /\ sinceExpiry' = [sinceExpiry EXCEPT ![trigger] = 0]
  /\ op' = [name |-> "timeout", trigger |-> trigger]
  /\ Quiet
  /\ UNCHANGED <<configVars, watchVars, graphVars, ipcVars, registered,
                 preClear, tornDown, skipped>>


\* #setupIPC(child): the listeners and child._ipcMessages it leaves
setupIPC(child) ==
  LET k == NewPair(child)
  IN [ipcMessages |-> [ipcMessages EXCEPT ![child] = k],
      processListeners |->
        processListeners \cup {[child |-> child, pair |-> k]},
      childListeners |-> [childListeners EXCEPT ![child].relay = @ \cup {k}]]

\* the IPC state as a record, for the methods that leave it alone
IPC ==
  [ipcMessages |-> ipcMessages, processListeners |-> processListeners,
   childListeners |-> childListeners]

\* watchChildProcessModules(child, key)
watchChildProcessModules(child, key) ==
  LET paired == IF wantsPassthroughIPC THEN setupIPC(child) ELSE IPC
  IN IF mode # "filter" THEN paired
     ELSE [paired EXCEPT !.childListeners[child].modules = Append(@, key)]

\* destroyIPC(child) throws when it reads a property of undefined
destroyIPCThrows(child) == wantsPassthroughIPC /\ ipcMessages[child] = 0

\* destroyIPC(child)
destroyIPC(child) ==
  IF wantsPassthroughIPC /\ ~ destroyIPCThrows(child)
    THEN [IPC EXCEPT
            !.processListeners =
              @ \ {[child |-> child, pair |-> ipcMessages[child]]},
            !.childListeners[child].relay = @ \ {ipcMessages[child]}]
    ELSE IPC

InstallIPC(i) ==
  /\ ipcMessages' = i.ipcMessages
  /\ processListeners' = i.processListeners
  /\ childListeners' = i.childListeners

WatchChildProcessModules(child, key) ==
  /\ Len(childListeners[child].modules) < MaxPairings
  /\ Cardinality(childListeners[child].relay) < MaxPairings
  /\ InstallIPC(watchChildProcessModules(child, key))
  /\ tornDown' = tornDown \ {child}
  /\ op' = [name |-> "watchChildProcessModules", child |-> child, key |-> key]
  /\ Quiet
  /\ UNCHANGED <<configVars, watchVars, graphVars, throttleVars, sinceExpiry,
                 registered, preClear, skipped>>

DestroyIPC(child) ==
  /\ InstallIPC(destroyIPC(child))
  /\ tornDown' = IF destroyIPCThrows(child) THEN tornDown
                 ELSE tornDown \cup {child}
  /\ op' = [name |-> "destroyIPC", child |-> child,
            paired |-> ipcMessages[child] # 0,
            threw |-> destroyIPCThrows(child)]
  /\ Quiet
  /\ UNCHANGED <<configVars, watchVars, graphVars, throttleVars, sinceExpiry,
                 registered, preClear, skipped>>

\* the parent of the watcher's process sends it a message: every
\* parentToChild listener forwards it to its child
ProcessMessage ==
  /\ processSend
  /\ sent' = [NothingSent EXCEPT
                !.toChild = [c \in Children |->
                               Cardinality({l \in processListeners :
                                              l.child = c})]]
  /\ op' = [name |-> "processMessage"]
  /\ emitted' = NoEvents
  /\ UNCHANGED <<configVars, watchVars, graphVars, throttleVars, ipcVars,
                 histVars>>

\* the child sends a message: every childToParent listener forwards it
\* upstream, every listener of watchChildProcessModules interprets it.
\* escaped: an exception leaves the last listener
ChildMessage(child, message) ==
  \E r \in {runHandlers(Fields, message, childListeners[child].modules)} :
     /\ Install(r.fields)
     /\ registered' = r.fields.registered
     /\ sent' = [NothingSent EXCEPT
                   !.forwarded = Cardinality(childListeners[child].relay),
                   !.restarted = r.restarted]
     /\ op' = [name |-> "childMessage", child |-> child, message |-> message,
               failed |-> r.failed, escaped |-> r.fields.threw]
     /\ skipped' = IF r.failed THEN skipped \cup {child} ELSE skipped
     /\ emitted' = NoEvents
     /\ UNCHANGED <<configVars, throttleVars, ipcVars, sinceExpiry, preClear,
                    tornDown>>

\* what the OS and the timers do
Callbacks ==
  \/ \E h \in DOMAIN handles, fileName \in FileNames : Change(h, fileName)
  \/ \E trigger \in Exists : Timeout(trigger)

\* the calls of the methods of the watch registry; files are filtered
\* without an owner, and unfiltered by their own path
WatchNext ==
  \/ \E path \in Dirs, recursive \in BOOLEAN : WatchPath(path, recursive)
  \/ \E path \in Files : WatchPath(path, FALSE)
  \/ \E file \in Files \cup {Falsy, FileMissing} : FilterFile(file, Falsy)
  \/ \E owners \in {<<FileF>>, <<FileG, FileF>>} : UnfilterFilesOwnedBy(owners)
  \/ ClearFileFilters
  \/ Clear
  \/ Callbacks

\* the calls of the methods of the dependency graph; watches are started by
\* filterFile only
GraphNext ==
  \/ \E file \in Files, owner \in Owners \cup {Falsy} : FilterFile(file, owner)
  \/ \E owners \in {<<OwnerX>>, <<FileF>>, <<OwnerX, FileF>>} :
       UnfilterFilesOwnedBy(owners)
  \/ ClearFileFilters
  \/ Clear
  \/ Callbacks

\* the calls about a child process, and the messages of the two channels
IPCNext ==
  \/ \E child \in Children, key \in Keys : WatchChildProcessModules(child, key)
  \/ \E child \in Children : DestroyIPC(child)
  \/ ProcessMessage
  \/ \E child \in Children, message \in Messages : ChildMessage(child, message)

Next == WatchNext \/ GraphNext \/ IPCNext

Spec == Init /\ [][Next]_vars

\* the watcher in a process without an upstream channel: its watch registry
SpecWatch == InitAlone /\ [][WatchNext]_vars

\* the same, the event loop running every timer callback that is due
SpecWatchFair == SpecWatch /\ \A trigger \in Exists : WF_vars(Timeout(trigger))

\* the watcher in a process without an upstream channel: its dependency graph
SpecGraph == InitAlone /\ [][GraphNext]_vars

\* the watcher used through watchChildProcessModules only
SpecIPC == Init /\ [][IPCNext]_vars


(***************************************************************************)
(* The properties.                                                         *)
(***************************************************************************)
\* the last step was a raw notification that reached the 'change' listener
Notified == op.name = "change" /\ op.heard

\* trigger passes the mode test of #onChange
Qualifies(trigger) == mode = "all" \/ trigger \in filteredFiles

\* C1: two 'changed' events for a trigger are never emitted without an expiry
\* of its throttle timer between them: a notification inside the window
\* emits nothing, and a qualifying notification outside it emits one event.
C1_Throttle ==
  /\ [](\A t \in Exists : sinceExpiry[t] <= 1)
  /\ [][op'.name = "change" /\ op'.heard =>
          /\ sinceExpiry[op'.trigger] > 0 => emitted' = NoEvents
          /\ sinceExpiry[op'.trigger] = 0 /\ Qualifies(op'.trigger) =>
               /\ Len(emitted') = 1
               /\ emitted'[1].trigger = op'.trigger]_vars

\* a qualifying notification was discarded inside the throttle window
C1_Witness ==
  /\ Notified
  /\ Qualifies(op.trigger)
  /\ sinceExpiry[op.trigger] = 1
  /\ emitted = NoEvents

\* C2: in filter mode a notification whose trigger is not in FilteredFiles
\* emits nothing; in all mode a notification whose trigger is not in the
\* ThrottleSet emits exactly one event.
C2_Mode ==
  [][op'.name = "change" /\ op'.heard =>
       /\ mode = "filter" /\ op'.trigger \notin filteredFiles =>
            emitted' = NoEvents
       /\ mode = "all" /\ op'.trigger \notin throttling =>
            /\ Len(emitted') = 1
            /\ emitted'[1].trigger = op'.trigger]_vars

\* in all mode a notification emitted for a trigger that is not filtered
C2_Witness ==
  /\ Notified
  /\ mode = "all"
  /\ op.trigger \notin filteredFiles
  /\ Len(emitted) = 1

\* C3: once unfilterFilesOwnedBy(owners) is called with o among owners, every
\* file registered with filterFile(f, o) is out of FilteredFiles and has no
\* entry in FileToOwners.
C3_UnfilterRemovesFiles ==
  [][op'.name = "unfilterFilesOwnedBy" =>
       \A i \in DOMAIN op'.owners, f \in Files :
         op'.owners[i] \in registered[f] =>
           /\ f \notin filteredFiles'
           /\ f \notin DOMAIN depencencyOwners']_vars

\* the owners payload the history gives an event for trigger
ExpectedOwners(trigger) ==
  IF trigger \in Files /\ registered[trigger] # {}
    THEN [has |-> TRUE, val |-> registered[trigger]]
    ELSE [has |-> FALSE]

\* C4: the owners payload of a 'changed' event for f is the set of owners
\* filterFile(f, o) was called with since f's associations were last
\* removed, and undefined when there is none.
C4_Owners ==
  \A i \in DOMAIN emitted :
    emitted[i].owners = ExpectedOwners(emitted[i].trigger)

\* an event that carries two owners
C4_Witness ==
  \E i \in DOMAIN emitted :
    /\ emitted[i].owners.has
    /\ Cardinality(emitted[i].owners.val) = 2

\* d is inside the directory subtree of p, and is not p
StrictDescendant(d, p) == StartsWith(d, p \o <<"/">>)

\* path has its own entry in w, or a recursive entry's root is a prefix of it
Covered(w, path) ==
  \/ path \in DOMAIN w
  \/ \E root \in DOMAIN w : w[root].recursive /\ StartsWith(path, root)

\* C5, as stated: watchPath(p, recursive=true) leaves no entry on a strict
\* descendant of p, whatever entries exist, one on p itself included.
C5_DescendantsRemoved ==
  [][op'.name = "watchPath" /\ op'.recursive =>
       \A d \in DOMAIN watchers :
         StrictDescendant(d, op'.path) => d \notin DOMAIN watchers']_vars

\* C5, amended: watchPath(p, recursive=true) that starts a watch, p not
\* being covered, leaves no entry on a strict descendant of p.
C5_DescendantsRemovedWhenStarted ==
  [][op'.name = "watchPath" /\ op'.recursive /\ ~ Covered(watchers, op'.path) =>
       /\ op'.started
       /\ \A d \in DOMAIN watchers :
            StrictDescendant(d, op'.path) => d \notin DOMAIN watchers']_vars

\* a recursive watchPath started a watch and removed a descendant's entry
C5_Witness ==
  /\ op.name = "watchPath"
  /\ op.recursive
  /\ op.started
  /\ \E d \in op.removed : StrictDescendant(d, op.path)

\* C6: watchPath on a covered path starts no watch and leaves the registry
\* as it was.
C6_Idempotent ==
  [][op'.name = "watchPath" /\ Covered(watchers, op'.path) =>
       /\ ~ op'.started
       /\ watchers' = watchers
       /\ handles' = handles]_vars

\* watchPath was called on a path that only a recursive watch covers
C6_Witness ==
  /\ op.name = "watchPath"
  /\ ~ op.started
  /\ op.path \notin DOMAIN watchers
  /\ Covered(watchers, op.path)

\* C7: after clear() the registry, FilteredFiles and both owner maps are
\* empty, and a notification from a watch that existed before the clear
\* emits nothing, in either mode.
C7_Clear ==
  /\ op.name = "clear" =>
       /\ DOMAIN watchers = {}
       /\ filteredFiles = {}
       /\ DOMAIN depencencyOwners = {}
       /\ DOMAIN ownerDependencies = {}
  /\ op.name = "change" /\ op.handle <= preClear => emitted = NoEvents

\* in all mode, the OS reported a change on a watch an earlier clear() stopped
C7_Witness ==
  /\ op.name = "change"
  /\ op.handle <= preClear
  /\ mode = "all"

\* at least one of the lists of a message is a non-empty array
SomeListNonEmpty(message) ==
  /\ ~ message.isNull
  /\ \/ message.require.isArray /\ message.require.items # << >>
     \/ message.import.isArray /\ message.import.items # << >>

\* C8: in filter mode, a message from a child watched once sends
\* 'watch:restarted' upstream at most once, and sends it exactly when the
\* upstream channel exists and one of its lists is non-empty.
C8_Restarted ==
  op.name = "childMessage" /\ mode = "filter"
    /\ Len(childListeners[op.child].modules) = 1 =>
      /\ sent.restarted <= 1
      /\ sent.restarted = 1 <=> (processSend /\ SomeListNonEmpty(op.message))

\* C9: after destroyIPC(child) no message of the grandparent is forwarded to
\* the child and no message of the child is forwarded to the grandparent.
C9_TornDown ==
  \A child \in tornDown :
    /\ op.name = "processMessage" => sent.toChild[child] = 0
    /\ op.name = "childMessage" /\ op.child = child => sent.forwarded = 0

\* C10: destroyIPC(child) on a child that was never paired raises no error.
C10_DestroyUnpaired ==
  op.name = "destroyIPC" /\ ~ op.paired => ~ op.threw

\* the paths a message lists: those under 'watch:require', and those the URLs
\* under 'watch:import' convert to
Listed(message) ==
  IF message.isNull THEN {}
  ELSE
    (IF message.require.isArray
       THEN {message.require.items[i] : i \in DOMAIN message.require.items}
       ELSE {})
    \cup
    (IF message.import.isArray
       THEN {fileURLToPath(message.import.items[i]) :
               i \in {j \in DOMAIN message.import.items :
                        ~ fileURLThrows(message.import.items[j])}}
       ELSE {})

\* a message that is an object, whose URLs convert and whose paths exist
WellFormed(message) ==
  /\ ~ message.isNull
  /\ message.import.isArray =>
       \A i \in DOMAIN message.import.items :
         ~ fileURLThrows(message.import.items[i])
  /\ \A path \in Listed(message) : ~ watchThrows(path)

\* the child has a 'message' listener of watchChildProcessModules
Listening(child) == childListeners[child].modules # << >>

\* C11: the failure of a child message never leaves the 'message' listener
\* and never removes a listener, and a well-formed message of a child that
\* sent a failing one before is interpreted without failure, its paths
\* ending in FilteredFiles.
C11_FailureIsolated ==
  /\ [](op.name = "childMessage" => ~ op.escaped)
  /\ [][op'.name = "childMessage" => childListeners' = childListeners]_vars
  /\ [](op.name = "childMessage" /\ op.child \in skipped
          /\ Listening(op.child) /\ WellFormed(op.message) =>
            /\ ~ op.failed
            /\ Listed(op.message) \subseteq filteredFiles)

\* a well-formed message was registered after a message of the child failed
C11_Witness ==
  /\ op.name = "childMessage"
  /\ op.child \in skipped
  /\ Listening(op.child)
  /\ ~ op.failed
  /\ Listed(op.message) = {FileF, FileG}
  /\ Listed(op.message) \subseteq filteredFiles

\* C12: clearFileFilters() empties FilteredFiles and leaves the registry, the
\* handles, both owner maps, the ThrottleSet and its timers as they were.
C12_ClearFileFiltersFrame ==
  [][op'.name = "clearFileFilters" =>
       /\ filteredFiles' = {}
       /\ watchers' = watchers
       /\ handles' = handles
       /\ depencencyOwners' = depencencyOwners
       /\ ownerDependencies' = ownerDependencies
       /\ depSets' = depSets
       /\ throttling' = throttling
       /\ timers' = timers]_vars

\* clearFileFilters() returned with watches, owners and a throttled trigger
\* in place
C12_Witness ==
  /\ op.name = "clearFileFilters"
  /\ filteredFiles = {}
  /\ DOMAIN watchers # {}
  /\ DOMAIN depencencyOwners # {}
  /\ DOMAIN ownerDependencies # {}
  /\ throttling # {}

\* C13: in filter mode, when the listeners of watchChildProcessModules
\* interpret a message without failure, every path it lists is in
\* FilteredFiles and has every key given among its owners; in all mode a
\* message changes neither the registry nor the graph.
C13_MessageRegisters ==
  /\ [](op.name = "childMessage" /\ mode = "filter" /\ Listening(op.child)
          /\ ~ op.failed =>
            \A path \in Listed(op.message) :
              /\ path \in filteredFiles
              /\ \A i \in DOMAIN childListeners[op.child].modules :
                   childListeners[op.child].modules[i] # Falsy =>
                     /\ path \in DOMAIN depencencyOwners
                     /\ childListeners[op.child].modules[i]
                          \in depencencyOwners[path])
  /\ [][op'.name = "childMessage" /\ mode = "all" =>
          UNCHANGED <<watchVars, graphVars>>]_vars

\* a message registered the path of a URL under the key of its listener
C13_Witness ==
  /\ op.name = "childMessage"
  /\ mode = "filter"
  /\ ~ op.failed
  /\ ~ op.message.isNull
  /\ op.message.import.isArray
  /\ FileG \in Listed(op.message)
  /\ FileG \in filteredFiles
  /\ FileG \in DOMAIN depencencyOwners
  /\ OwnerX \in depencencyOwners[FileG]

\* OwnerToFiles[o], empty when o has no entry
FilesOf(o) ==
  IF o \in DOMAIN ownerDependencies THEN depSets[ownerDependencies[o]] ELSE {}

\* FileToOwners[f], empty when f has no entry
OwnersOf(f) ==
  IF f \in DOMAIN depencencyOwners THEN depencencyOwners[f] ELSE {}

\* C14: in every reachable state, f is in OwnerToFiles[o] exactly when o is
\* in FileToOwners[f], for every file f and owner o.
C14_Symmetric ==
  \A f \in Files, o \in Owners : f \in FilesOf(o) <=> o \in OwnersOf(f)

\* the handles whose 'change' listener was made by a watch of path
ListeningOn(path) ==
  {h \in DOMAIN handles : \E l \in handles[h].listeners : l.path = path}

\* C15: in every reachable state no path is watched twice, and no entry's
\* path is a strict descendant of the root of a recursive entry.
C15_RegistryInvariants ==
  /\ \A path \in Exists : Cardinality(ListeningOn(path)) <= 1
  /\ \A root \in DOMAIN watchers, d \in DOMAIN watchers :
       watchers[root].recursive => ~ StrictDescendant(d, root)

\* a recursive and a non-recursive entry are in the registry together
C15_Witness ==
  \E root \in DOMAIN watchers, d \in DOMAIN watchers :
    /\ watchers[root].recursive
    /\ ~ watchers[d].recursive

\* C16: a trigger leaves the ThrottleSet, and a pending timer of it goes,
\* only in the step of its timer callback; and, the callbacks that are due
\* being run, every trigger in the ThrottleSet eventually leaves it.
C16_OnlyTimerRemoves ==
  /\ [][\A t \in throttling :
          t \notin throttling' \/ timers'[t] < timers[t] =>
            op'.name = "timeout" /\ op'.trigger = t]_vars
  /\ \A t \in Exists : (t \in throttling) ~> (t \notin throttling)

\* clear() returned and left a trigger in the ThrottleSet, its timer pending
C16_Witness ==
  /\ op.name = "clear"
  /\ \E t \in throttling : timers[t] > 0

\* the entry on path is live: its handle is open and has its listener
Live(path) ==
  /\ ~ handles[watchers[path].handle].closed
  /\ handles[watchers[path].handle].listeners # {}

\* a live entry observes f: it is on f, or it is recursive and f is inside its
\* subtree, or it is not recursive and on the directory that contains f
Observed(f) ==
  \E path \in DOMAIN watchers :
    /\ Live(path)
    /\ \/ path = f
       \/ watchers[path].recursive /\ StrictDescendant(f, path)
       \/ ~ watchers[path].recursive /\ path = dirname(f)

\* C17: as long as clear() has stopped no watch, every file in FilteredFiles
\* is observed by a live entry of the registry.
C17_FilteredObserved ==
  preClear = 0 => \A f \in filteredFiles : Observed(f)

\* C18: a watchPath(p, recursive=true) that starts a watch leaves every entry
\* whose path is not a strict descendant of p in the registry, its handle
\* open.
C18_OnlyDescendantsPruned ==
  [][op'.name = "watchPath" /\ op'.recursive /\ op'.started =>
       \A q \in DOMAIN watchers :
         ~ StrictDescendant(q, op'.path) =>
           /\ q \in DOMAIN watchers'
           /\ watchers'[q] = watchers[q]
           /\ ~ handles'[watchers[q].handle].closed]_vars

\* the entry of a list fails: its URL does not convert, or its path does not
\* exist
FailsAt(list, isURL, i) ==
  \/ isURL /\ fileURLThrows(list[i])
  \/ watchThrows(IF isURL THEN fileURLToPath(list[i]) ELSE list[i])

\* the paths of a list that precede its first failing entry
PathsBefore(list, isURL) ==
  {IF isURL THEN fileURLToPath(list[i]) ELSE list[i] :
     i \in {j \in DOMAIN list : \A k \in 1..j : ~ FailsAt(list, isURL, k)}}

\* the paths of a message that precede its first failing entry, the list
\* under 'watch:require' being read first
Before(message) ==
  IF message.isNull THEN {}
  ELSE
    LET require == IF message.require.isArray THEN message.require.items
                   ELSE << >>
        import == IF message.import.isArray THEN message.import.items
                  ELSE << >>
    IN PathsBefore(require, FALSE) \cup
         (IF \E i \in DOMAIN require : FailsAt(require, FALSE, i) THEN {}
          ELSE PathsBefore(import, TRUE))

\* C19, as stated: a message whose interpretation fails leaves FilteredFiles,
\* the owner maps and the registry as they were, and sends no
\* 'watch:restarted'.
C19_SkippedAsAWhole ==
  [][op'.name = "childMessage" /\ op'.failed =>
       /\ UNCHANGED <<filteredFiles, depencencyOwners, ownerDependencies,
                      depSets, watchers, handles>>
       /\ sent'.restarted = 0]_vars

\* C19, amended: a message whose interpretation fails is abandoned at its
\* first failing entry: the paths before it are added to FilteredFiles, and
\* given the keys of the listeners as owners, no other file is added or
\* changes owners, and no 'watch:restarted' is sent.
C19_AbandonedAtFailure ==
  [][op'.name = "childMessage" /\ op'.failed =>
       /\ filteredFiles' = filteredFiles \cup Before(op'.message)
       /\ \A f \in Before(op'.message) :
            \A i \in DOMAIN childListeners[op'.child].modules :
              childListeners[op'.child].modules[i] # Falsy =>
                /\ f \in DOMAIN depencencyOwners'
                /\ childListeners[op'.child].modules[i] \in depencencyOwners'[f]
       /\ \A f \in Files \ Before(op'.message) :
            MapGet(depencencyOwners', f) = MapGet(depencencyOwners, f)
       /\ sent'.restarted = 0]_vars

\* a message failed at its second entry, in a process with an upstream
\* channel, and its first entry is registered
C19_Witness ==
  /\ op.name = "childMessage"
  /\ op.failed
  /\ processSend
  /\ Before(op.message) = {FileG}
  /\ filteredFiles = {FileG}
  /\ sent.restarted = 0

\* the handles the entries of the registry hold
Held == {watchers[path].handle : path \in DOMAIN watchers}

\* C20: in every reachable state the open handles that have a 'change'
\* listener are the handles the registry holds, every handle outside the
\* registry is closed and has no listener, and the handle of an entry is
\* closed, its listeners removed, in the step that removes the entry.
C20_NoLeak ==
  /\ []({h \in DOMAIN handles :
           ~ handles[h].closed /\ handles[h].listeners # {}} = Held)
  /\ [](\A h \in DOMAIN handles \ Held :
          handles[h].closed /\ handles[h].listeners = {})
  /\ [][\A path \in DOMAIN watchers \ DOMAIN watchers' :
          /\ handles'[watchers[path].handle].closed
          /\ handles'[watchers[path].handle].listeners = {}]_vars

\* the registry holds an open handle after the handle of another entry was
\* closed
C20_Witness ==
  /\ Held # {}
  /\ \E h \in DOMAIN handles : handles[h].closed
  /\ \A h \in Held : ~ handles[h].closed

====
